---- MODULE Spec2Model ----
(***************************************************************************)
(* Model of js-cfg-tools (src/src/index.ts, the eleven-tag variant in      *)
(* lines 1-475): the typed casting engine CfgTools.castToType, the two     *)
(* resolution entry points mustBeDefined / recommendToBeDefined, and the   *)
(* Cfg constructor with its finalization (proceedWarnings, proceedErrors)  *)
(* and the env accessor.                                                   *)
(*                                                                         *)
(* Text is a sequence of chunks (strings); a raw environment value is a    *)
(* text whose chunks are single characters, so that the parsers below work *)
(* on characters as the JavaScript library functions do.  The marks that   *)
(* open a message in the source (a cross mark and a warning sign) are not  *)
(* representable in a TLA+ string and are written "[x] " and "[!]  ".      *)
(***************************************************************************)
EXTENDS Integers, Sequences, FiniteSets, TLC

(***************************************************************************)
(* Characters                                                              *)
(***************************************************************************)
Digits == <<"0", "1", "2", "3", "4", "5", "6", "7", "8", "9">>

LowerLetters == <<"a", "b", "c", "d", "e", "f", "g", "h", "i", "j", "k", "l", "m",
                  "n", "o", "p", "q", "r", "s", "t", "u", "v", "w", "x", "y", "z">>

UpperLetters == <<"A", "B", "C", "D", "E", "F", "G", "H", "I", "J", "K", "L", "M",
                  "N", "O", "P", "Q", "R", "S", "T", "U", "V", "W", "X", "Y", "Z">>

Range(f) == {f[i] : i \in DOMAIN f}

IndexOf(c, f) == CHOOSE i \in DOMAIN f : f[i] = c

IsDigit(c) == c \in Range(Digits)

IsLower(c) == c \in Range(LowerLetters)

IsUpper(c) == c \in Range(UpperLetters)

IsLetter(c) == IsLower(c) \/ IsUpper(c)

IsAlnum(c) == IsLetter(c) \/ IsDigit(c)

IsHexDigit(c) == IsDigit(c) \/ c \in {"a", "b", "c", "d", "e", "f", "A", "B", "C", "D", "E", "F"}

IsSpace(c) == c \in {" ", "\t", "\n", "\r"}

DigitVal(c) == IndexOf(c, Digits) - 1

HexVal(c) ==
  IF IsDigit(c) THEN DigitVal(c)
  ELSE IF IsLower(c) THEN IndexOf(c, LowerLetters) + 9
  ELSE IndexOf(c, UpperLetters) + 9

LowerChar(c) == IF IsUpper(c) THEN LowerLetters[IndexOf(c, UpperLetters)] ELSE c

\* a comparison that keeps the case of the text
KeepCase(s) == s

\* String.prototype.toLocaleLowerCase on ASCII text
ToLocaleLowerCase(s) == [i \in 1..Len(s) |-> LowerChar(s[i])]

Drop(s, n) == SubSeq(s, n + 1, Len(s))

Take(s, n) == SubSeq(s, 1, n)

StartsWith(s, p) == Len(s) >= Len(p) /\ Take(s, Len(p)) = p

RECURSIVE SkipSpaces(_)
SkipSpaces(s) == IF s # <<>> /\ IsSpace(s[1]) THEN SkipSpaces(Tail(s)) ELSE s

RECURSIVE CountWhile(_, _)
\* length of the longest prefix of s whose characters are all in the set cs
CountWhile(s, cs) == IF s # <<>> /\ s[1] \in cs THEN 1 + CountWhile(Tail(s), cs) ELSE 0

DigitSet == Range(Digits)

HexDigitSet == DigitSet \cup {"a", "b", "c", "d", "e", "f", "A", "B", "C", "D", "E", "F"}

RECURSIVE DigitsValue(_, _)
\* value of a run of digits in the given radix, most significant first
DigitsValue(ds, radix) ==
  IF ds = <<>> THEN 0
  ELSE DigitsValue(Take(ds, Len(ds) - 1), radix) * radix + HexVal(ds[Len(ds)])

RECURSIVE Pow10(_)
Pow10(n) == IF n <= 0 THEN 1 ELSE 10 * Pow10(n - 1)

(***************************************************************************)
(* JavaScript values.  Every value is a record of the same shape; t is the *)
(* kind, and only the fields of that kind carry information.               *)
(*   string: s (text of characters)      boolean: b                        *)
(*   number: nan, or m * 10^e with m not divisible by 10 (0 is m=0, e=0)   *)
(*   array:  a (sequence of values)                                        *)
(*   object: a (sequence k1, v1, k2, v2, ... of member names and values)   *)
(***************************************************************************)
JsBlank == [t |-> "undefined", s |-> <<>>, nan |-> FALSE, m |-> 0, e |-> 0, b |-> FALSE, a |-> <<>>]

JsUndefined == JsBlank

JsNull == [JsBlank EXCEPT !.t = "null"]

JsStr(s) == [JsBlank EXCEPT !.t = "string", !.s = s]

JsBool(b) == [JsBlank EXCEPT !.t = "boolean", !.b = b]

JsNaN == [JsBlank EXCEPT !.t = "number", !.nan = TRUE]

RECURSIVE Normal(_, _)
Normal(m, e) ==
  IF m = 0 THEN <<0, 0>>
  ELSE IF m % 10 = 0 THEN Normal(m \div 10, e + 1)
  ELSE <<m, e>>

JsNum(m, e) == [JsBlank EXCEPT !.t = "number", !.m = Normal(m, e)[1], !.e = Normal(m, e)[2]]

JsInt(n) == JsNum(n, 0)

JsArr(items) == [JsBlank EXCEPT !.t = "array", !.a = items]

JsObj(members) == [JsBlank EXCEPT !.t = "object", !.a = members]

IsNaN(v) == v.t = "number" /\ v.nan

\* the integer a number stands for, when it has no fractional part
IntOf(v) == v.m * Pow10(v.e)

\* a < v and v < b: the range without its two ends
NumBetweenExclusive(v, lo, hi) ==
  IF v.e >= 0 THEN lo < IntOf(v) /\ IntOf(v) < hi
  ELSE lo * Pow10(-v.e) < v.m /\ v.m < hi * Pow10(-v.e)

\* a <= v and v <= b for a number v that is not NaN
NumBetween(v, lo, hi) ==
  IF v.e >= 0 THEN lo <= IntOf(v) /\ IntOf(v) <= hi
  ELSE lo * Pow10(-v.e) <= v.m /\ v.m <= hi * Pow10(-v.e)

\* a comparison of the integer parts only: 1 and 1.5 count as equal
NumEqTruncated(x, y) ==
  /\ ~x.nan
  /\ ~y.nan
  /\ x.e >= 0
  /\ IF y.e >= 0 THEN IntOf(x) = IntOf(y)
     ELSE IntOf(x) = (IF y.m >= 0 THEN y.m \div Pow10(-y.e) ELSE -((-y.m) \div Pow10(-y.e)))

\* the === of two numbers (NaN differs from everything)
NumStrictEq(x, y) == ~x.nan /\ ~y.nan /\ x.m = y.m /\ x.e = y.e

(***************************************************************************)
(* parseInt(raw) with no radix argument: leading white space, an optional  *)
(* sign, then either 0x/0X and hexadecimal digits or decimal digits; the   *)
(* rest of the text is ignored; NaN when there is no digit.                *)
(***************************************************************************)
SignOf(s) == IF s # <<>> /\ s[1] = "-" THEN -1 ELSE 1

DropSign(s) == IF s # <<>> /\ s[1] \in {"+", "-"} THEN Tail(s) ELSE s

ParseInt(raw) ==
  LET body == DropSign(SkipSpaces(raw))
      sign == SignOf(SkipSpaces(raw))
      isHex == StartsWith(body, <<"0", "x">>) \/ StartsWith(body, <<"0", "X">>)
      digs == IF isHex THEN Drop(body, 2) ELSE body
      n == CountWhile(digs, IF isHex THEN HexDigitSet ELSE DigitSet)
  IN IF n = 0 THEN JsNaN
     ELSE JsInt(sign * DigitsValue(Take(digs, n), IF isHex THEN 16 ELSE 10))

(***************************************************************************)
(* parseFloat(raw): leading white space, an optional sign, decimal digits  *)
(* with an optional fraction and an optional exponent; the rest of the     *)
(* text is ignored; NaN when there is no digit.  (The literal Infinity,    *)
(* which parseFloat also accepts, is outside the model's numbers.)         *)
(***************************************************************************)
ParseFloat(raw) ==
  LET body == DropSign(SkipSpaces(raw))
      sign == SignOf(SkipSpaces(raw))
      ni == CountWhile(body, DigitSet)
      afterInt == Drop(body, ni)
      hasDot == afterInt # <<>> /\ afterInt[1] = "."
      nf == IF hasDot THEN CountWhile(Tail(afterInt), DigitSet) ELSE 0
      afterFrac == IF hasDot THEN Drop(afterInt, 1 + nf) ELSE afterInt
      mant == Take(body, ni) \o (IF hasDot THEN Take(Tail(afterInt), nf) ELSE <<>>)
      hasE == afterFrac # <<>> /\ afterFrac[1] \in {"e", "E"}
      expBody == IF hasE THEN DropSign(Tail(afterFrac)) ELSE <<>>
      expSign == IF hasE THEN SignOf(Tail(afterFrac)) ELSE 1
      ne == CountWhile(expBody, DigitSet)
      expo == IF ne = 0 THEN 0 ELSE expSign * DigitsValue(Take(expBody, ne), 10)
  IN IF ni + nf = 0 THEN JsNaN
     ELSE JsNum(sign * DigitsValue(mant, 10), expo - nf)

(***************************************************************************)
(* `${value}`: the text a template literal makes of a value.               *)
(***************************************************************************)
RECURSIVE NatToText(_)
NatToText(n) == IF n < 10 THEN <<Digits[n + 1]>> ELSE NatToText(n \div 10) \o <<Digits[(n % 10) + 1]>>

RECURSIVE Zeros(_)
Zeros(n) == IF n <= 0 THEN <<>> ELSE <<"0">> \o Zeros(n - 1)

Abs(n) == IF n < 0 THEN -n ELSE n

NumToText(v) ==
  IF v.nan THEN <<"N", "a", "N">>
  ELSE LET sign == IF v.m < 0 THEN <<"-">> ELSE <<>>
           ds == NatToText(Abs(v.m))
       IN IF v.e >= 0 THEN sign \o ds \o (IF v.m = 0 THEN <<>> ELSE Zeros(v.e))
          ELSE LET padded == Zeros((1 - v.e) - Len(ds)) \o ds
                   cut == Len(padded) + v.e
               IN sign \o Take(padded, cut) \o <<".">> \o Drop(padded, cut)

RECURSIVE JoinTexts(_, _)
\* Array.prototype.join on texts
JoinTexts(ts, sep) ==
  IF ts = <<>> THEN <<>>
  ELSE IF Len(ts) = 1 THEN ts[1]
  ELSE ts[1] \o sep \o JoinTexts(Tail(ts), sep)

RECURSIVE ToText(_)
ToText(v) ==
  CASE v.t = "string" -> v.s
    [] v.t = "number" -> NumToText(v)
    [] v.t = "boolean" -> IF v.b THEN <<"t", "r", "u", "e">> ELSE <<"f", "a", "l", "s", "e">>
    [] v.t = "null" -> <<"n", "u", "l", "l">>
    [] v.t = "undefined" -> <<"u", "n", "d", "e", "f", "i", "n", "e", "d">>
    [] v.t = "array" ->
         JoinTexts([i \in 1..Len(v.a) |->
                      IF v.a[i].t \in {"null", "undefined"} THEN <<>> ELSE ToText(v.a[i])],
                   <<",">>)
    [] OTHER -> <<"[object Object]">>

(***************************************************************************)
(* raw.split(","): the pieces of the text between the commas; the empty    *)
(* text gives one empty piece.                                             *)
(***************************************************************************)
RECURSIVE SplitOn(_, _)
SplitOn(s, sep) ==
  LET n == CountWhile(s, Range(s) \ {sep})
  IN IF n = Len(s) THEN <<s>>
     ELSE <<Take(s, n)>> \o SplitOn(Drop(s, n + 1), sep)

SplitComma(raw) == [i \in 1..Len(SplitOn(raw, ",")) |-> JsStr(SplitOn(raw, ",")[i])]

(***************************************************************************)
(* JSON.parse(raw).  A parse step gives [ok, v, rest]: whether a value was *)
(* read, the value, and the text after it.  The grammar is JSON's, without *)
(* escape sequences inside strings.  JSON.parse throws exactly when        *)
(* JsonParse(raw).ok is FALSE.                                             *)
(***************************************************************************)
JsonFail == [ok |-> FALSE, v |-> JsUndefined, rest |-> <<>>]

JsonOk(v, rest) == [ok |-> TRUE, v |-> v, rest |-> rest]

JsonNumber(s) ==
  LET neg == s # <<>> /\ s[1] = "-"
      body == IF neg THEN Tail(s) ELSE s
      ni == CountWhile(body, DigitSet)
      afterInt == Drop(body, ni)
      hasDot == afterInt # <<>> /\ afterInt[1] = "."
      nf == IF hasDot THEN CountWhile(Tail(afterInt), DigitSet) ELSE 0
      afterFrac == IF hasDot THEN Drop(afterInt, 1 + nf) ELSE afterInt
      hasE == afterFrac # <<>> /\ afterFrac[1] \in {"e", "E"}
      expBody == IF hasE THEN DropSign(Tail(afterFrac)) ELSE <<>>
      ne == CountWhile(expBody, DigitSet)
      used == (IF neg THEN 1 ELSE 0) + ni + (IF hasDot THEN 1 + nf ELSE 0)
              + (IF hasE THEN Len(Tail(afterFrac)) - Len(expBody) + 1 + ne ELSE 0)
  IN IF \/ ni = 0
        \/ (ni > 1 /\ body[1] = "0")
        \/ (hasDot /\ nf = 0)
        \/ (hasE /\ ne = 0)
     THEN JsonFail
     ELSE JsonOk(ParseFloat(Take(s, used)), Drop(s, used))

JsonString(s) ==
  LET n == CountWhile(Tail(s), Range(s) \ {"\"", "\\", "\t", "\n", "\r"})
  IN IF s = <<>> \/ s[1] # "\"" \/ n + 2 > Len(s) \/ s[n + 2] # "\"" THEN JsonFail
     ELSE JsonOk(JsStr(SubSeq(s, 2, n + 1)), Drop(s, n + 2))

RECURSIVE JsonValue(_)
RECURSIVE JsonElements(_, _)
RECURSIVE JsonMembers(_, _)

\* after element el of an array: "]" closes it, "," brings the next element
JsonAfterElement(el, after, acc) ==
  IF ~el.ok \/ after = <<>> THEN JsonFail
  ELSE IF after[1] = "]" THEN JsonOk(JsArr(Append(acc, el.v)), Tail(after))
  ELSE IF after[1] = "," THEN JsonElements(Tail(after), Append(acc, el.v))
  ELSE JsonFail

JsonElementRead(el, acc) == JsonAfterElement(el, SkipSpaces(el.rest), acc)

\* the elements of an array after its "[" or after a ","; acc holds those read
JsonElements(s, acc) == JsonElementRead(JsonValue(s), acc)

\* after member name : el of an object: "}" closes it, "," brings the next member
JsonAfterMember(name, el, after, acc) ==
  IF ~el.ok \/ after = <<>> THEN JsonFail
  ELSE IF after[1] = "}" THEN JsonOk(JsObj(acc \o <<name.v, el.v>>), Tail(after))
  ELSE IF after[1] = "," THEN JsonMembers(Tail(after), acc \o <<name.v, el.v>>)
  ELSE JsonFail

JsonMemberValue(name, el, acc) == JsonAfterMember(name, el, SkipSpaces(el.rest), acc)

JsonMemberColon(name, colon, acc) ==
  JsonMemberValue(name,
                  IF name.ok /\ colon # <<>> /\ colon[1] = ":" THEN JsonValue(Tail(colon)) ELSE JsonFail,
                  acc)

JsonMemberName(name, acc) == JsonMemberColon(name, SkipSpaces(name.rest), acc)

\* the members of an object after its "{" or after a ","; acc holds those read
JsonMembers(s, acc) == JsonMemberName(JsonString(SkipSpaces(s)), acc)

\* an array or object whose opening bracket is s[1]; inner is the text after it
JsonBracketed(s, inner) ==
  IF s[1] = "["
  THEN (IF inner # <<>> /\ inner[1] = "]" THEN JsonOk(JsArr(<<>>), Tail(inner))
        ELSE JsonElements(Tail(s), <<>>))
  ELSE (IF inner # <<>> /\ inner[1] = "}" THEN JsonOk(JsObj(<<>>), Tail(inner))
        ELSE JsonMembers(Tail(s), <<>>))

JsonValueAt(s) ==
  IF s = <<>> THEN JsonFail
  ELSE IF StartsWith(s, <<"n", "u", "l", "l">>) THEN JsonOk(JsNull, Drop(s, 4))
  ELSE IF StartsWith(s, <<"t", "r", "u", "e">>) THEN JsonOk(JsBool(TRUE), Drop(s, 4))
  ELSE IF StartsWith(s, <<"f", "a", "l", "s", "e">>) THEN JsonOk(JsBool(FALSE), Drop(s, 5))
  ELSE IF s[1] = "\"" THEN JsonString(s)
  ELSE IF s[1] \in {"[", "{"} THEN JsonBracketed(s, SkipSpaces(Tail(s)))
  ELSE JsonNumber(s)

JsonValue(s) == JsonValueAt(SkipSpaces(s))

\* a whole document: one value and nothing but white space after it
JsonWhole(r) == IF r.ok /\ SkipSpaces(r.rest) = <<>> THEN r ELSE JsonFail

JsonParse(raw) == JsonWhole(JsonValue(raw))

\* Array.isArray
IsArray(v) == v.t = "array"

(***************************************************************************)
(* new URL(text) with no base: UrlParses(text) is FALSE exactly when the   *)
(* constructor throws.  The text needs a scheme (a letter, then letters,   *)
(* digits, "+", "-", "."), a colon, and for the special schemes other than *)
(* file a non-empty host; a host must not hold a forbidden character.      *)
(***************************************************************************)
RECURSIVE TrimRight(_)
TrimRight(s) == IF s # <<>> /\ IsSpace(s[Len(s)]) THEN TrimRight(Take(s, Len(s) - 1)) ELSE s

SpecialSchemes == {<<"h", "t", "t", "p">>, <<"h", "t", "t", "p", "s">>, <<"w", "s">>,
                   <<"w", "s", "s">>, <<"f", "t", "p">>}

ForbiddenHostChars == {" ", "<", ">", "^", "|"}

UrlParses(text) ==
  LET s == TrimRight(SkipSpaces(text))
      n == CountWhile(s, {c \in Range(s) : IsAlnum(c) \/ c \in {"+", "-", "."}})
      scheme == ToLocaleLowerCase(Take(s, n))
      afterColon == Drop(s, n + 1)
      slashes == CountWhile(afterColon, {"/", "\\"})
      authority == Drop(afterColon, slashes)
      hostLen == CountWhile(authority, Range(authority) \ {"/", "\\", "?", "#"})
      host == Take(authority, hostLen)
  IN /\ n > 0
     /\ IsLetter(s[1])
     /\ Len(s) > n
     /\ s[n + 1] = ":"
     /\ IF scheme \in SpecialSchemes
        THEN host # <<>> /\ Range(host) \cap ForbiddenHostChars = {}
        ELSE slashes < 2 \/ Range(host) \cap ForbiddenHostChars = {}

(***************************************************************************)
(* net.isIP(text): 4 for a dotted IPv4 literal, 6 for an IPv6 literal made *)
(* of hexadecimal groups with at most one "::", 0 otherwise.               *)
(***************************************************************************)
IsOctet(p) ==
  /\ Len(p) \in 1..3
  /\ \A i \in 1..Len(p) : IsDigit(p[i])
  /\ (Len(p) > 1 => p[1] # "0")
  /\ DigitsValue(p, 10) <= 255

IsIPv4(text) ==
  LET parts == SplitOn(text, ".")
  IN Len(parts) = 4 /\ \A i \in 1..4 : IsOctet(parts[i])

IsHexGroup(p) == Len(p) \in 1..4 /\ \A i \in 1..Len(p) : IsHexDigit(p[i])

IsIPv6(text) ==
  LET parts == SplitOn(text, ":")
      n == Len(parts)
      empty == {i \in 1..n : parts[i] = <<>>}
      groups == {i \in 1..n : parts[i] # <<>>}
  IN /\ \A i \in groups : IsHexGroup(parts[i])
     /\ \/ empty = {} /\ n = 8
        \/ /\ Cardinality(groups) <= 7
           /\ \/ \E i \in 2..(n - 1) : empty = {i}
              \/ n >= 3 /\ empty = {1, 2}
              \/ n >= 3 /\ empty = {n - 1, n}
              \/ n = 3 /\ empty = {1, 2, 3}

IsIP(text) == IF IsIPv4(text) THEN 4 ELSE IF IsIPv6(text) THEN 6 ELSE 0

Localhost == <<"l", "o", "c", "a", "l", "h", "o", "s", "t">>

(***************************************************************************)
(* emailRegex.test(text):                                                  *)
(*  /^(?!.*\.\.)[a-zA-Z0-9](\.?[a-zA-Z0-9_\-+%])*@                         *)
(*    [a-zA-Z0-9](\.?[a-zA-Z0-9\-])*\.[a-zA-Z]{2,}$/                       *)
(***************************************************************************)
HasDoubleDot(s) == \E i \in 1..(Len(s) - 1) : s[i] = "." /\ s[i + 1] = "."

\* [a-zA-Z0-9](\.?C)* where C is alphanumeric or in extra
DottedRun(s, extra) ==
  /\ s # <<>>
  /\ IsAlnum(s[1])
  /\ \A i \in 2..Len(s) :
       \/ IsAlnum(s[i]) \/ s[i] \in extra
       \/ s[i] = "." /\ i < Len(s) /\ s[i + 1] # "."

LastIndexOf(s, c) == IF c \in Range(s) THEN CHOOSE i \in 1..Len(s) : s[i] = c /\ \A j \in (i + 1)..Len(s) : s[j] # c ELSE 0

EmailRegexTest(text) ==
  LET at == CountWhile(text, Range(text) \ {"@"})
      local == Take(text, at)
      domain == Drop(text, at + 1)
      dot == LastIndexOf(domain, ".")
      tld == Drop(domain, dot)
  IN /\ ~HasDoubleDot(text)
     /\ at < Len(text)
     /\ DottedRun(local, {"_", "-", "+", "%"})
     /\ dot > 1
     /\ DottedRun(Take(domain, dot - 1), {"-"})
     /\ Len(tld) >= 2
     /\ \A i \in 1..Len(tld) : IsLetter(tld[i])

(***************************************************************************)
(* uuidV4Regex.test(text):                                                 *)
(*  /^[0-9a-f]{8}-[0-9a-f]{4}-4[0-9a-f]{3}-[89ab][0-9a-f]{3}-[0-9a-f]{12}$/i *)
(***************************************************************************)
UuidV4RegexTest(text) ==
  /\ Len(text) = 36
  /\ \A i \in 1..36 :
       IF i \in {9, 14, 19, 24} THEN text[i] = "-"
       ELSE IF i = 15 THEN text[i] = "4"
       ELSE IF i = 20 THEN text[i] \in {"8", "9", "a", "b", "A", "B"}
       ELSE IsHexDigit(text[i])

(***************************************************************************)
(* CfgTools.castToType.  A resolution gives [ret, errors, warnings]: the   *)
(* value returned and the two lists as the call leaves them.  A fallback   *)
(* of JsUndefined is the missing fourth argument.                          *)
(***************************************************************************)
TTypes == {"string", "number", "boolean", "port", "url", "host", "json", "email",
           "integer", "uuidv4", "array"}

\* what each case of the switch calls the type in its messages
Noun(type) ==
  CASE type = "string" -> "a string"
    [] type = "number" -> "a number"
    [] type = "boolean" -> "a boolean"
    [] type = "port" -> "a valid port"
    [] type = "url" -> "a valid URL"
    [] type = "host" -> "a valid host"
    [] type = "json" -> "a valid JSON"
    [] type = "email" -> "a valid email"
    [] type = "integer" -> "an integer"
    [] type = "uuidv4" -> "a valid UUIDV4"
    [] type = "array" -> "an array"

TrueValues == {<<"t", "r", "u", "e">>, <<"1">>, <<"y", "e", "s">>, <<"o", "n">>,
               <<"e", "n", "a", "b", "l", "e">>, <<"e", "n", "a", "b", "l", "e", "d">>,
               <<"t">>, <<"y">>}

FalseValues == {<<"f", "a", "l", "s", "e">>, <<"0">>, <<"n", "o">>, <<"o", "f", "f">>,
                <<"d", "i", "s", "a", "b", "l", "e">>, <<"d", "i", "s", "a", "b", "l", "e", "d">>,
                <<"f">>, <<"n">>}

MinPort == 1

MaxPort == 65535

NilUuid == <<"0", "0", "0", "0", "0", "0", "0", "0", "-", "0", "0", "0", "0", "-", "0", "0", "0", "0",
             "-", "0", "0", "0", "0", "-", "0", "0", "0", "0", "0", "0", "0", "0", "0", "0", "0", "0">>

\* fallback !== undefined
IsHasDefault(fallback) == fallback.t # "undefined"

\* fallback ?? other
Coalesce(fallback, other) == IF fallback.t \in {"undefined", "null"} THEN other ELSE fallback

ErrorNotValid(type, key) == <<"[x] ", key, " is not ", Noun(type)>>

ErrorFallback(type, key, fallback) ==
  <<"[x] fallback value for ", key, " (">> \o ToText(fallback) \o <<") is not ", Noun(type)>>

WarningDefault(type, key, fallback) ==
  IF type = "json" THEN <<"[!]  ", key, " is not ", Noun(type), ", using default value">>
  ELSE <<"[!]  ", key, " is not ", Noun(type), ", using default value: \"">>
       \o ToText(fallback) \o <<"\"">>

\* the array case without the comma split of its catch block
ArrayTryJsonOnly(json, raw) ==
  IF json.ok THEN [parsed |-> json.v, isValid |-> IsArray(json.v)]
  ELSE [parsed |-> JsArr(<<>>), isValid |-> FALSE]

\* the try/catch of the array case, given the outcome of JSON.parse(raw):
\* parsed is the JSON value, or the comma split when JSON.parse threw
ArrayTry(json, raw) ==
  IF json.ok THEN [parsed |-> json.v, isValid |-> IsArray(json.v)]
  ELSE [parsed |-> JsArr(SplitComma(raw)), isValid |-> Len(SplitComma(raw)) > 0]

ArrayParsed(raw) == ArrayTry(JsonParse(raw), raw).parsed

\* isValid of each case
IsValid(type, raw) ==
  CASE type = "string" -> TRUE
    [] type = "number" -> ~IsNaN(ParseFloat(raw))
    [] type = "boolean" ->
         ToLocaleLowerCase(raw) \in TrueValues \/ ToLocaleLowerCase(raw) \in FalseValues
    [] type = "port" ->
         ~IsNaN(ParseInt(raw)) /\ NumBetween(ParseInt(raw), MinPort, MaxPort)
    [] type = "url" -> UrlParses(raw)
    [] type = "host" -> IsIP(raw) # 0 \/ raw = Localhost
    [] type = "json" -> JsonParse(raw).ok
    [] type = "email" -> EmailRegexTest(raw)
    [] type = "integer" -> ~IsNaN(ParseInt(raw)) /\ NumStrictEq(ParseInt(raw), ParseFloat(raw))
    [] type = "uuidv4" -> UuidV4RegexTest(raw)
    [] type = "array" -> ArrayTry(JsonParse(raw), raw).isValid

\* isDefaultValid (isValidDefault) of each case; the json case has no such test
IsDefaultValid(type, fallback) ==
  CASE type = "string" -> fallback.t = "string"
    [] type = "number" -> ~IsNaN(ParseFloat(ToText(fallback)))
    [] type = "boolean" ->
         \/ ToLocaleLowerCase(ToText(fallback)) \in TrueValues
         \/ ToLocaleLowerCase(ToText(fallback)) \in FalseValues
    [] type = "port" ->
         /\ ~IsNaN(ParseInt(ToText(fallback)))
         /\ NumBetween(ParseInt(ToText(fallback)), MinPort, MaxPort)
    [] type = "url" -> IsHasDefault(fallback) /\ UrlParses(ToText(fallback))
    [] type = "host" ->
         IsIP(ToText(fallback)) # 0 \/ (fallback.t = "string" /\ fallback.s = Localhost)
    [] type = "json" -> TRUE
    [] type = "email" -> EmailRegexTest(ToText(fallback))
    [] type = "integer" ->
         /\ ~IsNaN(ParseInt(ToText(fallback)))
         /\ NumStrictEq(ParseInt(ToText(fallback)), ParseFloat(ToText(fallback)))
    [] type = "uuidv4" -> UuidV4RegexTest(ToText(fallback))
    [] type = "array" -> IsArray(fallback)

\* the value of the `if (isValid) return ...` branch of each case
ValidValue(type, raw) ==
  CASE type = "number" -> ParseFloat(raw)
    [] type = "boolean" -> JsBool(ToLocaleLowerCase(raw) \in TrueValues)
    [] type \in {"port", "integer"} -> ParseInt(raw)
    [] type = "array" -> ArrayParsed(raw)
    [] OTHER -> JsStr(raw)

\* the value of the closing return of each case
FailValue(type, fallback) ==
  CASE type = "string" -> Coalesce(fallback, JsStr(<<>>))
    [] type = "number" -> Coalesce(fallback, JsInt(0))
    [] type = "boolean" -> JsBool(ToLocaleLowerCase(ToText(fallback)) \in TrueValues)
    [] type = "port" -> Coalesce(fallback, JsInt(1))
    [] type = "url" -> Coalesce(fallback, JsStr(<<>>))
    [] type = "host" -> Coalesce(fallback, JsStr(Localhost))
    [] type = "json" -> Coalesce(fallback, JsObj(<<>>))
    [] type = "email" -> Coalesce(fallback, JsStr(<<>>))
    [] type = "integer" -> Coalesce(fallback, JsInt(0))
    [] type = "uuidv4" -> Coalesce(fallback, JsStr(NilUuid))
    [] type = "array" -> Coalesce(fallback, JsArr(<<>>))

\* Escalate with a failed required value reported as a warning
EscalateWarnsOnly(type, key, fallback, isValid, isDefaultValid, errors, warnings) ==
  IF isValid THEN [errors |-> errors, warnings |-> warnings]
  ELSE IF ~IsHasDefault(fallback)
    THEN [errors |-> errors, warnings |-> Append(warnings, ErrorNotValid(type, key))]
  ELSE IF ~isDefaultValid
    THEN [errors |-> Append(errors, ErrorFallback(type, key, fallback)), warnings |-> warnings]
  ELSE [errors |-> errors, warnings |-> Append(warnings, WarningDefault(type, key, fallback))]

\* Escalate with the rejected fallback reported on both lists
EscalateBoth(type, key, fallback, isValid, isDefaultValid, errors, warnings) ==
  IF isValid THEN [errors |-> errors, warnings |-> warnings]
  ELSE IF ~IsHasDefault(fallback)
    THEN [errors |-> Append(errors, ErrorNotValid(type, key)), warnings |-> warnings]
  ELSE IF ~isDefaultValid
    THEN [errors |-> Append(errors, ErrorFallback(type, key, fallback)),
          warnings |-> Append(warnings, WarningDefault(type, key, fallback))]
  ELSE [errors |-> errors, warnings |-> Append(warnings, WarningDefault(type, key, fallback))]

\* the chain assigning a new one-message list instead of pushing
EscalateReplacing(type, key, fallback, isValid, isDefaultValid, errors, warnings) ==
  IF isValid THEN [errors |-> errors, warnings |-> warnings]
  ELSE IF ~IsHasDefault(fallback)
  THEN [errors |-> <<ErrorNotValid(type, key)>>, warnings |-> warnings]
  ELSE IF ~isDefaultValid
  THEN [errors |-> <<ErrorFallback(type, key, fallback)>>, warnings |-> warnings]
  ELSE [errors |-> errors, warnings |-> <<WarningDefault(type, key, fallback)>>]

\* the chain keeping one error at most: a message is dropped when an error is already listed
EscalateOnce(type, key, fallback, isValid, isDefaultValid, errors, warnings) ==
  IF isValid \/ errors # <<>> THEN [errors |-> errors, warnings |-> warnings]
  ELSE IF ~IsHasDefault(fallback)
  THEN [errors |-> Append(errors, ErrorNotValid(type, key)), warnings |-> warnings]
  ELSE [errors |-> errors, warnings |-> Append(warnings, WarningDefault(type, key, fallback))]

\* the if / else-if chain shared by the cases: at most one push
Escalate(type, key, fallback, isValid, isDefaultValid, errors, warnings) ==
  IF isValid THEN [errors |-> errors, warnings |-> warnings]
  ELSE IF ~IsHasDefault(fallback)
    THEN [errors |-> Append(errors, ErrorNotValid(type, key)), warnings |-> warnings]
  ELSE IF ~isDefaultValid
    THEN [errors |-> Append(errors, ErrorFallback(type, key, fallback)), warnings |-> warnings]
  ELSE [errors |-> errors, warnings |-> Append(warnings, WarningDefault(type, key, fallback))]

\* one case of the switch, given its isValid and the lists after its chain
CaseResult(type, raw, fallback, isValid, lists) ==
  [ret |-> IF isValid THEN ValidValue(type, raw) ELSE FailValue(type, fallback),
   errors |-> lists.errors,
   warnings |-> lists.warnings]

CaseOutcome(type, raw, key, fallback, isValid, errors, warnings) ==
  CaseResult(type, raw, fallback, isValid,
             Escalate(type, key, fallback, isValid, IsDefaultValid(type, fallback), errors, warnings))

castToType(type, raw, key, fallback, errors, warnings) ==
  CaseOutcome(type, raw, key, fallback, IsValid(type, raw), errors, warnings)

(***************************************************************************)
(* process.env: each key is either undefined or set to a raw text.         *)
(***************************************************************************)
(***************************************************************************)
(* What castToType throws.  An Error is the text of its message; the empty *)
(* text stands for "nothing thrown".                                       *)
(***************************************************************************)
\* new URL(text) throws a TypeError on a text it cannot parse
UrlError(text) == IF UrlParses(text) THEN <<>> ELSE <<"Invalid URL">>

\* JSON.parse(text) throws a SyntaxError on a text that is not a JSON document
JsonError(json) == IF json.ok THEN <<>> ELSE <<"Unexpected token">>

\* a try block without its catch: the error goes on to the caller
Rethrown(error) == error

\* try { ... } catch { ... }: the error ends in the catch block
Caught(error) == <<>>

\* the default branch of the switch
Unsupported(type) == <<"Unsupported type: ", type>>

\* the Error a castToType call throws, or the empty text when it returns
castToTypeThrows(type, raw, fallback) ==
  CASE type = "url" ->
         Caught(UrlError(raw)) \o
         (IF IsHasDefault(fallback) THEN Caught(UrlError(ToText(fallback))) ELSE <<>>)
    [] type \in {"json", "array"} -> Caught(JsonError(JsonParse(raw)))
    [] type \in TTypes \ {"url", "json", "array"} -> <<>>
    [] OTHER -> Unsupported(type)

\* what a call that threw leaves behind instead of a result
NoResult == [ret |-> JsUndefined, errors |-> <<>>, warnings |-> <<>>]

EnvUndefined == [defined |-> FALSE, s |-> <<>>]

EnvSet(raw) == [defined |-> TRUE, s |-> raw]

ErrorNotDefined(key) == <<"[x] ", key, " is not defined">>

\* mustBeDefined handing castToType a default of its own
mustBeDefinedWithDefault(type, key, val, errors, warnings) ==
  IF ~val.defined
  THEN castToType(type, <<>>, key, JsInt(1), Append(errors, ErrorNotDefined(key)), warnings)
  ELSE castToType(type, val.s, key, JsInt(1), errors, warnings)

\* mustBeDefined returning a blank value for an undefined variable instead of casting ""
mustBeDefinedWithoutCast(type, key, val, errors, warnings) ==
  IF ~val.defined
  THEN [ret |-> FailValue(type, JsUndefined),
        errors |-> Append(errors, ErrorNotDefined(key)),
        warnings |-> warnings]
  ELSE castToType(type, val.s, key, JsUndefined, errors, warnings)

\* CfgTools.mustBeDefined
mustBeDefined(type, key, val, errors, warnings) ==
  IF ~val.defined
  THEN castToType(type, <<>>, key, JsUndefined, Append(errors, ErrorNotDefined(key)), warnings)
  ELSE castToType(type, val.s, key, JsUndefined, errors, warnings)

\* recommendToBeDefined returning the default with a warning for an undefined variable
recommendToBeDefinedEarlyReturn(type, key, defaultValue, val, errors, warnings) ==
  IF ~val.defined
  THEN [ret |-> defaultValue,
        errors |-> errors,
        warnings |-> Append(warnings, <<"[!]  ", key, " is not defined, using default value: \"">>
                                        \o ToText(defaultValue) \o <<"\"">>)]
  ELSE castToType(type, val.s, key, defaultValue, errors, warnings)

\* CfgTools.recommendToBeDefined; val ?? "" is the raw handed to castToType
recommendToBeDefined(type, key, defaultValue, val, errors, warnings) ==
  castToType(type, IF val.defined THEN val.s ELSE <<>>, key, defaultValue, errors, warnings)

(***************************************************************************)
(* Cfg finalization: proceedWarnings and proceedErrors.  The console is    *)
(* the sequence of batches written so far.                                 *)
(***************************************************************************)
NL == "\n"

ErrorsHeader == <<"Environment configuration errors detected:">>

proceedWarnings(warnings, out) ==
  IF Len(warnings) > 0
  THEN Append(out, [stream |-> "warn",
                    text |-> <<"ENVIRONMENT WARNINGS:", NL>> \o JoinTexts(warnings, <<NL>>)])
  ELSE out

\* proceedErrors that logs the errors and does not throw
proceedErrorsLogOnly(errors, out) ==
  IF Len(errors) > 0
  THEN [threw |-> FALSE,
        message |-> <<>>,
        out |-> Append(out, [stream |-> "error",
                             text |-> <<"ENVIRONMENT ERRORS:", NL>> \o JoinTexts(errors, <<NL>>)])]
  ELSE [threw |-> FALSE, message |-> <<>>, out |-> out]

\* proceedErrors whose Error carries the first message only
proceedErrorsFirstOnly(errors, out) ==
  IF Len(errors) > 0
  THEN [threw |-> TRUE,
        message |-> ErrorsHeader \o <<NL>> \o errors[1],
        out |-> Append(out, [stream |-> "error",
                             text |-> <<"ENVIRONMENT ERRORS:", NL>> \o JoinTexts(errors, <<NL>>)])]
  ELSE [threw |-> FALSE, message |-> <<>>, out |-> out]

\* [threw, message, out]: whether proceedErrors throws, the Error's message, the console
proceedErrors(errors, out) ==
  IF Len(errors) > 0
  THEN [threw |-> TRUE,
        message |-> ErrorsHeader \o <<NL>> \o JoinTexts(errors, <<NL>>),
        out |-> Append(out, [stream |-> "error",
                             text |-> <<"ENVIRONMENT ERRORS:", NL>> \o JoinTexts(errors, <<NL>>)])]
  ELSE [threw |-> FALSE, message |-> <<>>, out |-> out]

(***************************************************************************)
(* Objects live in a heap: heap[addr] is an array or object whose items    *)
(* are primitive values or references to other heap objects.               *)
(***************************************************************************)
JsRef(addr) == [JsBlank EXCEPT !.t = "ref", !.m = addr]

RECURSIVE Store(_, _)
RECURSIVE StoreItems(_, _, _)

\* allocate the arrays and objects of value v; gives the new heap and v's cell
\* object v takes the next address once its items r are allocated
Allocated(v, r) ==
  [h |-> Append(r.h, [v EXCEPT !.a = r.cells]), cell |-> JsRef(Len(r.h) + 1)]

Store(h, v) ==
  IF v.t \notin {"array", "object"} THEN [h |-> h, cell |-> v]
  ELSE Allocated(v, StoreItems(h, v.a, <<>>))

StoreRest(r, items, acc) == StoreItems(r.h, Tail(items), Append(acc, r.cell))

StoreItems(h, items, acc) ==
  IF items = <<>> THEN [h |-> h, cells |-> acc]
  ELSE StoreRest(Store(h, Head(items)), items, acc)

RECURSIVE Deref(_, _)
\* the value a cell stands for
Deref(h, cell) ==
  IF cell.t # "ref" THEN cell
  ELSE [h[cell.m] EXCEPT !.a = [i \in 1..Len(h[cell.m].a) |-> Deref(h, h[cell.m].a[i])]]

RECURSIVE Reachable(_, _)
\* the addresses of the objects a cell gives access to
Reachable(h, cell) ==
  IF cell.t # "ref" THEN {}
  ELSE {cell.m} \cup UNION {Reachable(h, h[cell.m].a[i]) : i \in 1..Len(h[cell.m].a)}

\* a copy of the outer object only, sharing the objects nested in it
StructuredCloneShallow(h, cell) ==
  IF cell.t # "ref" THEN [h |-> h, cell |-> cell]
  ELSE [h |-> Append(h, h[cell.m]), cell |-> JsRef(Len(h) + 1)]

\* structuredClone(value): fresh objects all the way down
StructuredClone(h, cell) == Store(h, Deref(h, cell))

(***************************************************************************)
(* The raw texts and fallback values the declaration function is tried on. *)
(***************************************************************************)
RawEmpty == <<>>

RawAbc == <<"a", "b", "c">>

Raw3000 == <<"3", "0", "0", "0">>

Raw0 == <<"0">>

Raw1 == <<"1">>

Raw65535 == <<"6", "5", "5", "3", "5">>

Raw65536 == <<"6", "5", "5", "3", "6">>

RawOneAndHalf == <<"1", ".", "5">>

RawThreePointZero == <<"3", ".", "0">>

RawOneE3 == <<"1", "e", "3">>

Raw12px == <<"1", "2", "p", "x">>

RawHex10 == <<"0", "x", "1", "0">>

RawYes == <<"Y", "e", "s">>

RawOff == <<"o", "f", "f">>

RawUrl == <<"h", "t", "t", "p", ":", "/", "/", "a", ".", "i", "o">>

RawUrlNoHost == <<"h", "t", "t", "p", ":", "/", "/">>

RawLocalhost == <<"l", "o", "c", "a", "l", "h", "o", "s", "t">>

RawIPv4 == <<"1", ".", "2", ".", "3", ".", "4">>

RawIPv6 == <<":", ":", "1">>

RawJsonObject == <<"{", "\"", "a", "\"", ":", "1", "}">>

RawJsonArray == <<"[", "1", ",", "2", ",", "3", "]">>

RawCommaList == <<"1", ",", "2", ",", "3">>

RawNull == <<"n", "u", "l", "l">>

RawEmail == <<"a", "@", "b", ".", "c", "o">>

RawEmailShortTld == <<"a", "@", "b", ".", "c">>

RawEmailDots == <<"a", ".", ".", "b", "@", "x", ".", "c", "o", "m">>

RawUuid4 ==
  <<"d", "1", "8", "d", "3", "9", "a", "8", "-", "a", "4", "a", "0", "-", "4", "8", "4", "b",
    "-", "b", "6", "7", "6", "-", "0", "7", "9", "8", "a", "b", "3", "c", "c", "3", "3", "3">>

RawUuid5 ==
  <<"d", "1", "8", "d", "3", "9", "a", "8", "-", "a", "4", "a", "0", "-", "5", "8", "4", "b",
    "-", "b", "6", "7", "6", "-", "0", "7", "9", "8", "a", "b", "3", "c", "c", "3", "3", "3">>

RawPool ==
  {RawEmpty, RawAbc, Raw3000, Raw0, Raw1, Raw65535,
   Raw65536, RawOneAndHalf, RawThreePointZero, RawOneE3, Raw12px, RawHex10,
   RawYes, RawOff, RawUrl, RawUrlNoHost, RawLocalhost, RawIPv4,
   RawIPv6, RawJsonObject, RawJsonArray, RawCommaList, RawNull, RawEmail,
   RawEmailShortTld, RawEmailDots, RawUuid4, RawUuid5}

FbObject == JsObj(<<JsStr(<<"k">>), JsStr(<<"v">>)>>)

FbArray == JsArr(<<JsInt(1), JsInt(2)>>)

\* for each type: fallbacks the type accepts, fallbacks it rejects, and null
FallbacksFor(type) ==
  CASE type = "string" -> {JsStr(RawAbc), JsInt(5), JsNull}
    [] type = "number" -> {JsInt(5), JsNum(15, -1), JsNaN, JsNull}
    [] type = "boolean" -> {JsBool(TRUE), JsBool(FALSE), JsStr(RawYes), JsStr(RawAbc), JsNull}
    [] type = "port" -> {JsInt(4000), JsInt(0), JsInt(65536), JsNull}
    [] type = "url" -> {JsStr(RawUrl), JsStr(RawAbc), JsNull}
    [] type = "host" -> {JsStr(RawLocalhost), JsStr(RawIPv4), JsStr(RawAbc), JsNull}
    [] type = "json" -> {FbObject, JsStr(RawAbc), JsNull, JsUndefined}
    [] type = "email" -> {JsStr(RawEmail), JsStr(RawAbc), JsNull}
    [] type = "integer" -> {JsInt(123), JsNum(15, -1), JsNull}
    [] type = "uuidv4" -> {JsStr(RawUuid4), JsStr(RawUuid5), JsNull}
    [] type = "array" -> {FbArray, JsStr(RawAbc), JsNull}

Keys == {"A", "B"}

\* the environments, types and fallbacks of the whole-initialization runs
LifeEnvs ==
  {[k \in Keys |-> IF k = "A" THEN EnvSet(Raw3000) ELSE EnvUndefined],
   [k \in Keys |-> IF k = "A" THEN EnvSet(RawAbc) ELSE EnvSet(RawJsonArray)],
   [k \in Keys |-> IF k = "A" THEN EnvUndefined ELSE EnvSet(RawCommaList)],
   [k \in Keys |-> IF k = "A" THEN EnvSet(RawJsonObject) ELSE EnvSet(Raw0)]}

LifeTypes == {"port", "array", "json"}

LifeFallbacks(type) ==
  CASE type = "port" -> {JsInt(4000), JsInt(0)}
    [] type = "array" -> {FbArray, JsStr(RawAbc)}
    [] type = "json" -> {FbObject}

\* the environments of the single-resolution runs: key A holds any raw text or nothing
ResolveEnvs ==
  {[k \in Keys |-> IF k = "A" THEN v ELSE EnvUndefined] :
     v \in {EnvUndefined} \cup {EnvSet(raw) : raw \in RawPool}}

MaxCalls == 2

MaxResolveCalls == 1

MaxReads == 2

\* a tag outside the eleven, as a caller without the type checker can pass
UnsupportedTag == "date"

\* the environments, types and fallbacks of the processes that initialize repeatedly
RunEnvs ==
  {[k \in Keys |-> IF k = "A" THEN EnvSet(Raw3000) ELSE EnvUndefined],
   [k \in Keys |-> IF k = "A" THEN EnvSet(RawAbc) ELSE EnvSet(Raw0)]}

RunRequiredTypes == {"port", UnsupportedTag}

RunTypes == {"port"}

RunFallbacks(type) == {JsInt(4000), JsInt(0)}

MaxRuns == 2

(***************************************************************************)
(* State                                                                   *)
(***************************************************************************)
VARIABLES
  processEnv,            \* process.env
  errorsList,            \* Cfg.errorsList, shared with CfgTools.errors
  warningsList,          \* Cfg.warningsList, shared with CfgTools.warnings
  fields,                \* the values the declaration function has resolved so far
  last,                  \* the most recent resolution call and the lists before it
  phase,                 \* "declaring", then "committed" or "failed"
  thrown,                \* the message of the Error the constructor threw
  console,               \* what console.warn and console.error were given
  heap,                  \* the objects
  environmentVariables,  \* Cfg.environmentVariables
  handed,                \* the objects the env accessor has returned to the caller
  lastRead,              \* the most recent read of env
  calls,                 \* the log of this initialization's resolution requests (kept by SpecRuns)
  runs,                  \* the initializations this process has finished before this one
  inspected              \* what the caller has read through the errors and warnings accessors

vars == <<processEnv, errorsList, warningsList, fields, last, phase, thrown, console,
          heap, environmentVariables, handed, lastRead, calls, runs, inspected>>

NoCall == [op |-> "none", type |-> "", key |-> "", val |-> EnvUndefined, fallback |-> JsUndefined,
           ret |-> JsUndefined, errorsBefore |-> <<>>, warningsBefore |-> <<>>]

NoRead == [done |-> FALSE, value |-> JsUndefined, afterMutation |-> FALSE]

NotInspected == [errorsRead |-> FALSE, errors |-> <<>>, warningsRead |-> FALSE, warnings |-> <<>>]

\* the object the declaration function returns: one member per resolved field
Declared(fs) == JsObj(fs)

InitRest ==
  /\ errorsList = <<>>
  /\ warningsList = <<>>
  /\ fields = <<>>
  /\ last = NoCall
  /\ phase = "declaring"
  /\ thrown = <<>>
  /\ console = <<>>
  /\ heap = <<>>
  /\ environmentVariables = JsUndefined
  /\ handed = <<>>
  /\ lastRead = NoRead
  /\ calls = <<>>
  /\ runs = <<>>
  /\ inspected = NotInspected

Init == processEnv \in LifeEnvs /\ InitRest

InitResolve == processEnv \in ResolveEnvs /\ InitRest

\* one resolution request of the declaration function
Request(op, type, key, defaultValue) ==
  [op |-> op, type |-> type, key |-> key, fallback |-> defaultValue]

\* the raw text a resolution call hands to castToType: "" for an undefined variable
RawOf(val) == IF val.defined THEN val.s ELSE <<>>

\* a resolution call returns r: its value becomes member key of the declared object
Resolved(op, type, key, defaultValue, r) ==
  /\ phase = "declaring"
  /\ errorsList' = r.errors
  /\ warningsList' = r.warnings
  /\ fields' = fields \o <<JsStr(<<key>>), r.ret>>
  /\ last' = [op |-> op, type |-> type, key |-> key, val |-> processEnv[key],
              fallback |-> defaultValue, ret |-> r.ret,
              errorsBefore |-> errorsList, warningsBefore |-> warningsList]
  /\ UNCHANGED <<processEnv, phase, thrown, console, heap, environmentVariables, handed, lastRead,
                 runs, inspected>>

\* a resolution call throws error: the declaration function and the constructor end with it
Raised(op, type, key, defaultValue, error) ==
  /\ phase = "declaring"
  /\ errorsList' = IF op = "mustBeDefined" /\ ~processEnv[key].defined
                   THEN Append(errorsList, ErrorNotDefined(key))
                   ELSE errorsList
  /\ last' = [op |-> op, type |-> type, key |-> key, val |-> processEnv[key],
              fallback |-> defaultValue, ret |-> JsUndefined,
              errorsBefore |-> errorsList, warningsBefore |-> warningsList]
  /\ phase' = "failed"
  /\ thrown' = error
  /\ UNCHANGED <<processEnv, warningsList, fields, console, heap, environmentVariables, handed,
                 lastRead, runs, inspected>>

\* a resolution call either throws error or returns r
Called(op, type, key, defaultValue, error, r) ==
  IF error # <<>> THEN Raised(op, type, key, defaultValue, error)
  ELSE Resolved(op, type, key, defaultValue, r)

\* the declaration function calls tools.mustBeDefined(type, key)
CallMustBeDefined(type, key) ==
  Called("mustBeDefined", type, key, JsUndefined,
         castToTypeThrows(type, RawOf(processEnv[key]), JsUndefined),
         IF type \in TTypes
         THEN mustBeDefined(type, key, processEnv[key], errorsList, warningsList)
         ELSE NoResult)

\* the declaration function calls tools.recommendToBeDefined(type, key, defaultValue)
CallRecommendToBeDefined(type, key, defaultValue) ==
  Called("recommendToBeDefined", type, key, defaultValue,
         castToTypeThrows(type, RawOf(processEnv[key]), defaultValue),
         IF type \in TTypes
         THEN recommendToBeDefined(type, key, defaultValue, processEnv[key], errorsList, warningsList)
         ELSE NoResult)

\* the constructor's tail: the declared object is stored, then the two lists are proceeded
Constructed(stored, result) ==
  /\ phase = "declaring"
  /\ heap' = stored.h
  /\ environmentVariables' = stored.cell
  /\ console' = result.out
  /\ thrown' = result.message
  /\ phase' = IF result.threw THEN "failed" ELSE "committed"
  /\ UNCHANGED <<processEnv, errorsList, warningsList, fields, last, handed, lastRead,
                 calls, runs, inspected>>

\* a constructor proceeding the errors first: a run that throws never logs its warnings
FinishInitErrorsFirst ==
  Constructed(Store(heap, Declared(fields)),
              IF Len(errorsList) > 0 THEN proceedErrors(errorsList, console)
              ELSE proceedErrors(errorsList, proceedWarnings(warningsList, console)))

\* the declaration function returns; the constructor stores its object and finalizes
FinishInit ==
  Constructed(Store(heap, Declared(fields)),
              proceedErrors(errorsList, proceedWarnings(warningsList, console)))

Mutated == JsStr(<<"mutated">>)

\* the env accessor hands copy to the caller
Handed(copy) ==
  /\ phase = "committed"
  /\ heap' = copy.h
  /\ handed' = Append(handed, copy.cell)
  /\ lastRead' = [done |-> TRUE, value |-> Deref(copy.h, copy.cell),
                  afterMutation |-> \E i \in 1..Len(handed) :
                                       Deref(heap, handed[i]) # Declared(fields)]
  /\ UNCHANGED <<processEnv, errorsList, warningsList, fields, last, phase, thrown, console,
                 environmentVariables, calls, runs, inspected>>

\* the caller reads cfg.env
ReadEnv == Handed(StructuredClone(heap, environmentVariables))

\* the heap after the last item of each object in addrs is overwritten
Overwrite(h, addrs) ==
  [a \in 1..Len(h) |->
     IF a \in addrs /\ h[a].a # <<>> THEN [h[a] EXCEPT !.a[Len(h[a].a)] = Mutated] ELSE h[a]]

\* the caller's write lands in the objects addrs
Written(after) ==
  /\ phase = "committed"
  /\ after # heap
  /\ heap' = after
  /\ UNCHANGED <<processEnv, errorsList, warningsList, fields, last, phase, thrown, console,
                 environmentVariables, handed, lastRead, calls, runs, inspected>>

\* the caller writes into an object a read of env gave it: into the object itself
\* (deep = FALSE) or into every object nested inside it (deep = TRUE)
MutateHanded(i, deep) ==
  /\ i \in 1..Len(handed)
  /\ Written(Overwrite(heap, IF deep THEN Reachable(heap, handed[i]) \ {handed[i].m}
                                     ELSE {handed[i].m}))

\* the caller reads cfg.errors; it holds cfg only when the constructor has returned
ReadErrors ==
  /\ phase = "committed"
  /\ inspected' = [inspected EXCEPT !.errorsRead = TRUE, !.errors = errorsList]
  /\ UNCHANGED <<processEnv, errorsList, warningsList, fields, last, phase, thrown, console,
                 heap, environmentVariables, handed, lastRead, calls, runs>>

\* the caller reads cfg.warnings
ReadWarnings ==
  /\ phase = "committed"
  /\ inspected' = [inspected EXCEPT !.warningsRead = TRUE, !.warnings = warningsList]
  /\ UNCHANGED <<processEnv, errorsList, warningsList, fields, last, phase, thrown, console,
                 heap, environmentVariables, handed, lastRead, calls, runs>>

\* what a finished initialization leaves behind in the process
Finished ==
  [calls |-> calls, fields |-> fields, errors |-> errorsList, warnings |-> warningsList,
   phase |-> phase, thrown |-> thrown]

\* a list kept from one Cfg object to the next
SharedList(previous) == previous

\* private errorsList: string[] = [] : each Cfg object starts with lists of its own
FreshList(previous) == <<>>

\* the process calls initCfg again: a new Cfg object is under construction
InitAgain ==
  /\ phase # "declaring"
  /\ runs' = Append(runs, Finished)
  /\ errorsList' = FreshList(errorsList)
  /\ warningsList' = FreshList(warningsList)
  /\ fields' = <<>>
  /\ last' = NoCall
  /\ phase' = "declaring"
  /\ thrown' = <<>>
  /\ environmentVariables' = JsUndefined
  /\ calls' = <<>>
  /\ inspected' = NotInspected
  /\ UNCHANGED <<processEnv, console, heap, handed, lastRead>>

\* key has not been requested yet in this initialization
KeyFree(key) == \A i \in 1..Len(calls) : calls[i].key # key

\* the request is written to the log of this initialization
Logged(op, type, key, defaultValue) == calls' = Append(calls, Request(op, type, key, defaultValue))

Next ==
  \/ /\ Len(fields) < 2 * MaxCalls
     /\ \E type \in LifeTypes, key \in Keys : CallMustBeDefined(type, key)
     /\ UNCHANGED calls
  \/ /\ Len(fields) < 2 * MaxCalls
     /\ \E type \in LifeTypes, key \in Keys :
          \E defaultValue \in LifeFallbacks(type) : CallRecommendToBeDefined(type, key, defaultValue)
     /\ UNCHANGED calls
  \/ FinishInit
  \/ Len(handed) < MaxReads /\ ReadEnv
  \/ \E i \in 1..Len(handed), deep \in BOOLEAN : MutateHanded(i, deep)

Spec == Init /\ [][Next]_vars

NextResolve ==
  \/ /\ Len(fields) < 2 * MaxResolveCalls
     /\ \E type \in TTypes : CallMustBeDefined(type, "A")
     /\ UNCHANGED calls
  \/ /\ Len(fields) < 2 * MaxResolveCalls
     /\ \E type \in TTypes :
          \E defaultValue \in FallbacksFor(type) : CallRecommendToBeDefined(type, "A", defaultValue)
     /\ UNCHANGED calls
  \/ FinishInit

SpecResolve == InitResolve /\ [][NextResolve]_vars

InitRuns == processEnv \in RunEnvs /\ InitRest

\* a process that initializes MaxRuns times, each declaration asking for distinct keys
NextRuns ==
  \/ \E type \in RunRequiredTypes, key \in Keys :
       /\ KeyFree(key)
       /\ CallMustBeDefined(type, key)
       /\ Logged("mustBeDefined", type, key, JsUndefined)
  \/ \E type \in RunTypes, key \in Keys :
       \E defaultValue \in RunFallbacks(type) :
         /\ KeyFree(key)
         /\ CallRecommendToBeDefined(type, key, defaultValue)
         /\ Logged("recommendToBeDefined", type, key, defaultValue)
  \/ FinishInit
  \/ ReadErrors
  \/ ReadWarnings
  \/ Len(runs) + 1 < MaxRuns /\ InitAgain

SpecRuns == InitRuns /\ [][NextRuns]_vars

(***************************************************************************)
(* Properties                                                              *)
(***************************************************************************)
IsPrefix(p, q) == Len(p) <= Len(q) /\ Take(q, Len(p)) = p

\* the raw text the last resolution call handed to castToType
LastRaw == IF last.val.defined THEN last.val.s ELSE <<>>

\* the errors list as castToType found it in the last resolution call
LastErrorsAtCast ==
  IF last.op = "mustBeDefined" /\ ~last.val.defined
  THEN Append(last.errorsBefore, ErrorNotDefined(last.key))
  ELSE last.errorsBefore

LastRawFails == ~last.val.defined \/ ~IsValid(last.type, last.val.s)

\* C1: initCfg hands a configuration object to the caller if and only if the
\* errors list is empty when the declaration function has returned, whatever
\* the number of warnings; with one or more errors it throws and the caller
\* never gets to read the object.
C1_CommitIffNoErrors ==
  phase # "declaring" =>
    /\ (phase = "committed") <=> (errorsList = <<>>)
    /\ (phase = "failed") <=> (thrown # <<>>)
    /\ phase = "failed" => handed = <<>> /\ ~lastRead.done

C1_Witness == phase = "committed" /\ Len(warningsList) > 0 /\ lastRead.done

\* C2: mustBeDefined(tag, key) on a variable that is absent or whose raw value
\* fails the tag's rule records at least one error naming that key, and the
\* initialization then fails; a required field that records no error has a
\* raw value that is present and valid.
C2_RequiredFailureIsFatal ==
  last.op = "mustBeDefined" =>
    /\ LastRawFails =>
         /\ Len(errorsList) > Len(last.errorsBefore)
         /\ IsPrefix(last.errorsBefore, errorsList)
         /\ \A i \in (Len(last.errorsBefore) + 1)..Len(errorsList) : errorsList[i][2] = last.key
         /\ phase # "committed"
    /\ errorsList = last.errorsBefore => last.val.defined /\ IsValid(last.type, last.val.s)

C2_Witness ==
  /\ last.op = "mustBeDefined"
  /\ last.val.defined
  /\ ~IsValid(last.type, last.val.s)
  /\ phase = "failed"

\* C3: recommendToBeDefined(tag, key, fallback) with a fallback valid for the
\* tag, called while the variable is absent or its raw value fails the tag's
\* rule, returns the fallback, appends exactly one warning and no error.
C3_FallbackReturnedWithOneWarning ==
  (/\ last.op = "recommendToBeDefined"
   /\ LastRawFails
   /\ IsHasDefault(last.fallback)
   /\ IsDefaultValid(last.type, last.fallback)) =>
    /\ last.ret = last.fallback
    /\ Len(warningsList) = Len(last.warningsBefore) + 1
    /\ IsPrefix(last.warningsBefore, warningsList)
    /\ errorsList = last.errorsBefore

\* C4: recommendToBeDefined with a raw value that is present and satisfies the
\* tag's rule returns the value parsed from the raw text, whatever the
\* fallback, and leaves both lists unchanged.
C4_ValidRawParsedAndSilent ==
  (/\ last.op = "recommendToBeDefined"
   /\ last.val.defined
   /\ IsValid(last.type, last.val.s)) =>
    /\ last.ret = (CASE last.type \in {"string", "url", "host", "email", "uuidv4"} -> JsStr(last.val.s)
                     [] last.type = "number" -> ParseFloat(last.val.s)
                     [] last.type = "boolean" -> JsBool(ToLocaleLowerCase(last.val.s) \in TrueValues)
                     [] last.type \in {"port", "integer"} -> ParseInt(last.val.s)
                     [] last.type = "json" -> JsonParse(last.val.s).v
                     [] last.type = "array" -> ArrayParsed(last.val.s))
    /\ errorsList = last.errorsBefore
    /\ warningsList = last.warningsBefore

\* C5: recommendToBeDefined with a raw value that is absent or invalid and a
\* fallback that itself fails the tag's rule appends exactly one error and no
\* warning, returns the fallback verbatim, and the initialization fails.
C5_InvalidFallbackIsError ==
  (/\ last.op = "recommendToBeDefined"
   /\ LastRawFails
   /\ IsHasDefault(last.fallback)
   /\ ~IsValid(last.type, ToText(last.fallback))) =>
    /\ Len(errorsList) = Len(last.errorsBefore) + 1
    /\ IsPrefix(last.errorsBefore, errorsList)
    /\ warningsList = last.warningsBefore
    /\ last.ret = last.fallback
    /\ phase # "committed"

\* C6 as stated: for every tag, mustBeDefined on an absent variable appends two
\* errors for the key, "is not defined" and then the tag's "is not ..." error
\* from validating the empty text.
C6_AbsentRequiredGivesTwoErrors ==
  (last.op = "mustBeDefined" /\ ~last.val.defined) =>
    errorsList = last.errorsBefore \o <<ErrorNotDefined(last.key), ErrorNotValid(last.type, last.key)>>

\* C6 amended: for every tag but string and array, mustBeDefined on an absent
\* variable appends the "is not defined" error and then the tag's "is not ..."
\* error; for string and array, whose rule the empty text passes, it appends
\* the "is not defined" error alone.
C6_AbsentRequiredErrors ==
  (last.op = "mustBeDefined" /\ ~last.val.defined) =>
    IF last.type \in {"string", "array"}
    THEN errorsList = Append(last.errorsBefore, ErrorNotDefined(last.key))
    ELSE errorsList = last.errorsBefore \o <<ErrorNotDefined(last.key), ErrorNotValid(last.type, last.key)>>

C6_Witness ==
  /\ last.op = "mustBeDefined"
  /\ ~last.val.defined
  /\ last.type = "uuidv4"
  /\ Len(errorsList) = Len(last.errorsBefore) + 2

C8_JsonReturnsParsedStructure ==
  (/\ last.op # "none"
   /\ last.type = "json"
   /\ last.val.defined
   /\ JsonParse(last.val.s).ok) =>
    last.ret = JsonParse(last.val.s).v

\* C9: after a successful initialization every read of env returns a deep copy
\* of the committed object: whatever the caller writes into the objects it was
\* given, the stored object and every later read of env equal the object the
\* declaration function returned, and no object is shared with the caller.
C9_EnvReadsAreDeepCopies ==
  phase = "committed" =>
    /\ Deref(heap, environmentVariables) = Declared(fields)
    /\ lastRead.done => lastRead.value = Declared(fields)
    /\ \A i \in 1..Len(handed) :
         Reachable(heap, handed[i]) \cap Reachable(heap, environmentVariables) = {}

C9_Witness ==
  /\ phase = "committed"
  /\ lastRead.done
  /\ lastRead.afterMutation
  /\ \E i \in 1..Len(handed) :
       \E a \in Reachable(heap, handed[i]) \ {handed[i].m} : Mutated \in Range(heap[a].a)

\* C10: when initialization fails, the thrown failure carries every recorded
\* error message exactly once, one per line, in the order of detection: its
\* lines after the heading are the errors list, and each resolution call only
\* appends to that list.
C10_CompositeFailureListsErrorsInOrder ==
  /\ last.op # "none" => IsPrefix(last.errorsBefore, errorsList)
  /\ phase = "failed" => SplitOn(thrown, NL) = <<ErrorsHeader>> \o errorsList

C10_Witness ==
  /\ phase = "failed"
  /\ Len(errorsList) >= 3
  /\ \E i, j \in 1..Len(errorsList) : errorsList[i][2] # errorsList[j][2]

\* C11 as stated: after an initialization that recorded at least one error the
\* caller can read the recorded errors and warnings through the errors and
\* warnings accessors of the Cfg object.
C11_FailedRunIsInspectable ==
  (phase = "failed" /\ errorsList # <<>>) => ENABLED ReadErrors /\ ENABLED ReadWarnings

\* C12: for every tag of the eleven, every raw value and every fallback, a
\* mustBeDefined or recommendToBeDefined call does not throw: it returns a
\* value, which becomes the member of the declared object, and a failure
\* reaches the caller only as the composite Error of the finalization.
C12_ResolutionNeverThrows ==
  (last.op # "none" /\ last.type \in TTypes) =>
    /\ castToTypeThrows(last.type, RawOf(last.val), last.fallback) = <<>>
    /\ Len(fields) >= 2
    /\ fields[Len(fields) - 1] = JsStr(<<last.key>>)
    /\ fields[Len(fields)] = last.ret
    /\ last.ret.t # "undefined"
    /\ phase = "declaring" => thrown = <<>>
    /\ thrown # <<>> =>
         /\ phase = "failed"
         /\ errorsList # <<>>
         /\ thrown = ErrorsHeader \o <<NL>> \o JoinTexts(errorsList, <<NL>>)

C12_Witness ==
  /\ last.op = "recommendToBeDefined"
  /\ last.type = "url"
  /\ ~UrlParses(RawOf(last.val))
  /\ ~UrlParses(ToText(last.fallback))
  /\ phase = "failed"
  /\ Len(fields) = 2

\* the initializations of this process that have finished, oldest first
FinishedRuns == runs \o (IF phase # "declaring" THEN <<Finished>> ELSE <<>>)

Count(seq, x) == Cardinality({i \in 1..Len(seq) : seq[i] = x})

SameUpToOrder(p, q) ==
  /\ Len(p) = Len(q)
  /\ \A i \in 1..Len(p) : Count(p, p[i]) = Count(q, p[i])

\* the value run r resolved for key
FieldOf(r, key) == CHOOSE v \in Range(r.fields) : \E i \in 1..Len(r.fields) - 1 :
                                                    r.fields[i] = JsStr(<<key>>) /\ r.fields[i + 1] = v

Supported(r) == \A i \in 1..Len(r.calls) : r.calls[i].type \in TTypes

\* C13: in one environment, two declarations that issue the same resolution
\* requests on distinct keys in different orders get the same value for each
\* field, the same commit-or-abort outcome, and the same errors and warnings
\* up to the order of the lists.
C13_RequestOrderIsIrrelevant ==
  \A m, n \in 1..Len(FinishedRuns) :
    LET p == FinishedRuns[m]
        q == FinishedRuns[n]
    IN (Supported(p) /\ Supported(q) /\ Range(p.calls) = Range(q.calls)) =>
         /\ \A i \in 1..Len(p.calls) : FieldOf(p, p.calls[i].key) = FieldOf(q, p.calls[i].key)
         /\ p.phase = q.phase
         /\ SameUpToOrder(p.errors, q.errors)
         /\ SameUpToOrder(p.warnings, q.warnings)

C13_Witness ==
  /\ Len(FinishedRuns) = 2
  /\ Len(FinishedRuns[1].calls) = 2
  /\ FinishedRuns[2].calls = <<FinishedRuns[1].calls[2], FinishedRuns[1].calls[1]>>
  /\ Supported(FinishedRuns[1])
  /\ FinishedRuns[2].phase = "failed"
  /\ FinishedRuns[2].errors # FinishedRuns[1].errors

RECURSIVE Replay(_, _)
\* the lists a declaration issuing the requests cs fills, starting from the lists of acc,
\* and the Error of the request that threw, if one did
Replay(cs, acc) ==
  IF cs = <<>> THEN acc
  ELSE LET c == Head(cs)
           val == processEnv[c.key]
           error == castToTypeThrows(c.type, RawOf(val), c.fallback)
           r == IF c.op = "mustBeDefined"
                THEN mustBeDefined(c.type, c.key, val, acc.errors, acc.warnings)
                ELSE recommendToBeDefined(c.type, c.key, c.fallback, val, acc.errors, acc.warnings)
       IN IF error # <<>>
          THEN [errors |-> IF c.op = "mustBeDefined" /\ ~val.defined
                           THEN Append(acc.errors, ErrorNotDefined(c.key))
                           ELSE acc.errors,
                warnings |-> acc.warnings,
                raised |-> error]
          ELSE Replay(Tail(cs), [errors |-> r.errors, warnings |-> r.warnings, raised |-> <<>>])

\* what the requests cs record when they start from empty lists
OwnOutcome(cs) == Replay(cs, [errors |-> <<>>, warnings |-> <<>>, raised |-> <<>>])

\* C14: each initCfg call works on its own, initially empty errors and
\* warnings lists: in any sequence of initializations of one process, the
\* lists and the composite failure of an initialization hold exactly the
\* messages of its own requests, and the same declaration run again on the
\* same environment gives the same outcome.
C14_InitializationsAreIndependent ==
  /\ errorsList = OwnOutcome(calls).errors
  /\ warningsList = OwnOutcome(calls).warnings
  /\ \A n \in 1..Len(FinishedRuns) :
       LET r == FinishedRuns[n]
           own == OwnOutcome(r.calls)
       IN /\ r.errors = own.errors
          /\ r.warnings = own.warnings
          /\ (r.phase = "committed") <=> (own.errors = <<>> /\ own.raised = <<>>)
          /\ r.thrown = IF own.raised # <<>> THEN own.raised
                        ELSE IF own.errors = <<>> THEN <<>>
                        ELSE ErrorsHeader \o <<NL>> \o JoinTexts(own.errors, <<NL>>)
  /\ \A m, n \in 1..Len(FinishedRuns) :
       FinishedRuns[m].calls = FinishedRuns[n].calls => FinishedRuns[m] = FinishedRuns[n]

C14_Witness ==
  /\ Len(runs) >= 1
  /\ runs[1].phase = "failed"
  /\ runs[1].warnings # <<>>
  /\ phase = "committed"
  /\ calls # <<>>
  /\ warningsList = <<>>

\* the last resolution call appended no message: castToType took the raw value
LastAccepted == errorsList = LastErrorsAtCast /\ warningsList = last.warningsBefore

\* C15: for tag port a raw value is valid exactly when parseInt reads an
\* integer n with 1 <= n <= 65535 from it, and n is then the returned value:
\* "0" and "65536" are invalid, "1" yields 1 and "65535" yields 65535.
C15_PortRange ==
  (last.op # "none" /\ last.type = "port" /\ last.val.defined) =>
    LET n == ParseInt(last.val.s)
    IN /\ LastAccepted <=> (~IsNaN(n) /\ 1 <= IntOf(n) /\ IntOf(n) <= 65535)
       /\ LastAccepted => last.ret = JsInt(IntOf(n))
       /\ last.val.s \in {Raw0, Raw65536} => ~LastAccepted
       /\ last.val.s = Raw1 => LastAccepted /\ last.ret = JsInt(1)
       /\ last.val.s = Raw65535 => LastAccepted /\ last.ret = JsInt(65535)

C15_Witness ==
  /\ last.op = "mustBeDefined"
  /\ last.type = "port"
  /\ last.val = EnvSet(Raw65535)
  /\ last.ret = JsInt(65535)
  /\ errorsList = <<>>

\* C16: for tag array, a raw value that parses as JSON is valid exactly when
\* the parsed result is a sequence, and that sequence is returned ("[1,2,3]"
\* gives the numbers 1, 2, 3); a raw value that does not parse as JSON is split
\* on commas into a sequence of texts, returned as a success ("1,2,3" gives
\* the texts "1", "2", "3").
C16_ArrayJsonOrCommaSplit ==
  (last.op # "none" /\ last.type = "array" /\ last.val.defined) =>
    LET json == JsonParse(last.val.s)
    IN /\ json.ok =>
            /\ LastAccepted <=> json.v.t = "array"
            /\ LastAccepted => last.ret = json.v
       /\ ~json.ok =>
            /\ LastAccepted
            /\ last.ret = JsArr([i \in 1..Len(SplitOn(last.val.s, ",")) |->
                                   JsStr(SplitOn(last.val.s, ",")[i])])
       /\ last.val.s = RawJsonArray => last.ret = JsArr(<<JsInt(1), JsInt(2), JsInt(3)>>)
       /\ last.val.s = RawCommaList =>
            last.ret = JsArr(<<JsStr(<<"1">>), JsStr(<<"2">>), JsStr(<<"3">>)>>)

C16_Witness ==
  /\ last.op = "mustBeDefined"
  /\ last.type = "array"
  /\ last.val = EnvSet(RawCommaList)
  /\ last.ret = JsArr(<<JsStr(<<"1">>), JsStr(<<"2">>), JsStr(<<"3">>)>>)
  /\ errorsList = <<>>

\* C17 as stated: for every tag, a caller-supplied fallback is accepted
\* (warning branch) exactly when the same content supplied as the raw value of
\* the variable would be accepted by the tag's validator, and rejected (error
\* branch) otherwise.
C17_FallbackValidatedAsRaw ==
  (/\ last.op = "recommendToBeDefined"
   /\ ~IsValid(last.type, LastRaw)
   /\ IsHasDefault(last.fallback)) =>
    IF IsValid(last.type, ToText(last.fallback))
    THEN /\ Len(warningsList) = Len(last.warningsBefore) + 1
         /\ errorsList = last.errorsBefore
    ELSE /\ Len(errorsList) = Len(last.errorsBefore) + 1
         /\ warningsList = last.warningsBefore

\* the batches of one stream written to the console
Batches(stream) == {i \in 1..Len(console) : console[i].stream = stream}

\* C18: at finalization the warnings are handled before the errors: a run that
\* recorded both emits the warnings as one advisory batch first and only then
\* raises the composite failure; the warning batch is emitted at most once per
\* initialization and only when the warnings list is non-empty.
C18_WarningsBeforeErrors ==
  /\ phase = "declaring" => console = <<>>
  /\ phase # "declaring" =>
       /\ Cardinality(Batches("warn")) = (IF warningsList # <<>> THEN 1 ELSE 0)
       /\ Cardinality(Batches("error")) = (IF errorsList # <<>> THEN 1 ELSE 0)
       /\ \A i \in Batches("warn") :
            /\ console[i].text = <<"ENVIRONMENT WARNINGS:", NL>> \o JoinTexts(warningsList, <<NL>>)
            /\ \A j \in Batches("error") : i < j
       /\ (warningsList # <<>> /\ errorsList # <<>>) =>
            /\ Len(console) = 2
            /\ console[1].stream = "warn"
            /\ console[2].stream = "error"
            /\ phase = "failed"
            /\ thrown # <<>>

C18_Witness ==
  /\ phase = "failed"
  /\ warningsList # <<>>
  /\ errorsList # <<>>
  /\ Len(console) = 2

\* C19: the errors and warnings lists of one initialization are append-only:
\* each list as it was before a mustBeDefined or recommendToBeDefined call is
\* a prefix of the list after the call, and a call adds two messages at most.
C19_ListsAreAppendOnly ==
  last.op # "none" =>
    /\ IsPrefix(last.errorsBefore, errorsList)
    /\ IsPrefix(last.warningsBefore, warningsList)
    /\ Len(errorsList) + Len(warningsList)
         <= Len(last.errorsBefore) + Len(last.warningsBefore) + 2

C19_Witness ==
  /\ last.op # "none"
  /\ last.errorsBefore # <<>>
  /\ last.warningsBefore = <<>>
  /\ warningsList # <<>>
  /\ phase = "declaring"

\* C20: mustBeDefined never appends to the warnings list: for every tag, key
\* and raw value, present or absent, the warnings list is unchanged by the
\* call, and a raw value that fails the tag's rule is recorded as an error.
C20_RequiredNeverWarns ==
  last.op = "mustBeDefined" =>
    /\ warningsList = last.warningsBefore
    /\ ~IsValid(last.type, LastRaw) => Len(errorsList) = Len(LastErrorsAtCast) + 1

C20_Witness ==
  /\ last.op = "mustBeDefined"
  /\ last.type = "boolean"
  /\ last.val = EnvSet(RawAbc)
  /\ warningsList = <<>>
  /\ Len(errorsList) = 1
  /\ phase = "declaring"

TrueWords ==
  {<<"t", "r", "u", "e">>, <<"1">>, <<"y", "e", "s">>, <<"o", "n">>,
   <<"e", "n", "a", "b", "l", "e">>, <<"e", "n", "a", "b", "l", "e", "d">>, <<"t">>, <<"y">>}

FalseWords ==
  {<<"f", "a", "l", "s", "e">>, <<"0">>, <<"n", "o">>, <<"o", "f", "f">>,
   <<"d", "i", "s", "a", "b", "l", "e">>, <<"d", "i", "s", "a", "b", "l", "e", "d">>,
   <<"f">>, <<"n">>}

\* C22: for tag boolean a raw value is valid exactly when its lower-cased form
\* is one of the sixteen words, whatever its case; the returned value is true
\* for the first eight words and false for the last eight.
C22_BooleanWords ==
  (last.op # "none" /\ last.type = "boolean" /\ last.val.defined) =>
    LET lower == [i \in 1..Len(last.val.s) |-> LowerChar(last.val.s[i])]
    IN /\ LastAccepted <=> lower \in TrueWords \cup FalseWords
       /\ lower \in TrueWords => last.ret = JsBool(TRUE)
       /\ lower \in FalseWords => last.ret = JsBool(FALSE)
       /\ last.val.s = RawYes => LastAccepted /\ last.ret = JsBool(TRUE)
       /\ last.val.s = RawOff => LastAccepted /\ last.ret = JsBool(FALSE)

C22_Witness ==
  /\ last.op = "mustBeDefined"
  /\ last.type = "boolean"
  /\ last.val = EnvSet(RawYes)
  /\ last.ret = JsBool(TRUE)
  /\ errorsList = <<>>

\* C23: for tag integer a raw value is valid exactly when parseInt reads an
\* integer from it and that integer equals what parseFloat reads, and the
\* integer is returned: "1.5" (a fractional part) and "1e3" (an exponent) are
\* invalid, "3.0" and "3000" (no fractional remainder) are valid.
C23_IntegerParsesAgree ==
  (last.op # "none" /\ last.type = "integer" /\ last.val.defined) =>
    LET n == ParseInt(last.val.s)
        f == ParseFloat(last.val.s)
    IN /\ LastAccepted <=> (~n.nan /\ ~f.nan /\ n = f)
       /\ LastAccepted => last.ret = n /\ n.e >= 0
       /\ last.val.s \in {RawOneAndHalf, RawOneE3} => ~LastAccepted
       /\ last.val.s = RawThreePointZero => LastAccepted /\ last.ret = JsInt(3)
       /\ last.val.s = Raw3000 => LastAccepted /\ last.ret = JsInt(3000)

C23_Witness ==
  /\ last.op = "mustBeDefined"
  /\ last.type = "integer"
  /\ last.val = EnvSet(RawThreePointZero)
  /\ last.ret = JsInt(3)
  /\ errorsList = <<>>

====
